---- MODULE Spec2Model ----
(***************************************************************************)
(* LogDate (src/src/date.rs): the calendar timestamp of fast_log.          *)
(*                                                                         *)
(* The module models the two conversions between an instant and the        *)
(* calendar fields, the validity check, the three text parsers behind      *)
(* from_str, the formatter and the total order, each as an operator        *)
(* computed the way the code computes it, and a state machine that applies *)
(* them to inputs drawn from bounded sets.                                 *)
(*                                                                         *)
(* Representation.  The whole-second count of a SystemTime is a u64 that   *)
(* reaches 253402300800, beyond the integers of the model checker.  An     *)
(* instant is therefore held as [days, secs, nanos] with                   *)
(*      whole seconds since the epoch = days * 86400 + secs,               *)
(*      0 <= secs < 86400,                                                 *)
(* which is a bijection with the u64 value.  The code itself only uses the *)
(* value through "/ 86400", "% 86400" and the comparison with              *)
(* 253402300800 = 2932897 * 86400.  A text is a sequence of bytes (0..255).*)
(***************************************************************************)
EXTENDS Integers, Sequences, FiniteSets, TLC

VARIABLES
    pc,       \* the step the run is at
    src,      \* the description of the input the run was given
    time,     \* the SystemTime handed to LogDate::from
    texts,    \* the texts handed to from_str, in order
    results,  \* the results of from_str, one per parsed text
    dates,    \* the LogDate values in hand (converted or hand-built)
    back,     \* the SystemTime obtained by converting dates[1] back
    valid,    \* is_valid of each value of dates
    ord       \* the result of cmp

vars == <<pc, src, time, texts, results, dates, back, valid, ord>>

----------------------------------------------------------------------------
(* Rust integer arithmetic *)

\* i64 "/" truncates toward zero
TruncDiv(a, b) == IF a >= 0 THEN a \div b ELSE -((-a) \div b)

\* i64 "%" has the sign of the dividend
TruncRem(a, b) == a - b * TruncDiv(a, b)

\* "as u8"
AsU8(x) == x % 256

\* "as u16"
AsU16(x) == x % 65536

----------------------------------------------------------------------------
(* Values *)

SECS_PER_DAY == 86400

\* 253402300800 / 86400: the first day of the year 10000
LIMIT_DAYS == 2932897

LEAPOCH == 11017

DAYS_PER_400Y == 365 * 400 + 97

DAYS_PER_100Y == 365 * 100 + 24

DAYS_PER_4Y == 365 * 4 + 1

\* struct LogDate
LogDate(nano, sec, min, hour, day, mon, year, wday) ==
    [nano |-> nano, sec |-> sec, min |-> min, hour |-> hour,
     day |-> day, mon |-> mon, year |-> year, wday |-> wday]

\* the placeholder held where an operation returned no LogDate
NoDate == LogDate(0, 0, 0, 0, 0, 0, 0, 0)

\* a SystemTime: UNIX_EPOCH + (days * 86400 + secs) s + nanos ns
Instant(days, secs, nanos) == [days |-> days, secs |-> secs, nanos |-> nanos]

NoTime == Instant(0, 0, 0)

----------------------------------------------------------------------------
(* impl From<SystemTime> for LogDate *)

months == <<31, 30, 31, 30, 31, 31, 30, 31, 30, 31, 31, 29>>

\* the for loop over months: [mon, remdays] after the loop, entered with
\* mon months already passed
RECURSIVE MonthLoop(_, _)
MonthLoop(mon, remdays) ==
    IF mon = Len(months) THEN [mon |-> mon, remdays |-> remdays]
    ELSE IF remdays < months[mon + 1] THEN [mon |-> mon + 1, remdays |-> remdays]
    ELSE MonthLoop(mon + 1, remdays - months[mon + 1])

\* the body of from past the domain check: the calendar fields of v
Calendar(v) ==
    LET days        == v.days - LEAPOCH
        secs_of_day == v.secs
        qc0         == TruncDiv(days, DAYS_PER_400Y)
        rd0         == TruncRem(days, DAYS_PER_400Y)
        qc_cycles   == IF rd0 < 0 THEN qc0 - 1 ELSE qc0
        rd1         == IF rd0 < 0 THEN rd0 + DAYS_PER_400Y ELSE rd0
        c0          == TruncDiv(rd1, DAYS_PER_100Y)
        c_cycles    == IF c0 = 4 THEN c0 - 1 ELSE c0
        rd2         == rd1 - c_cycles * DAYS_PER_100Y
        q0          == TruncDiv(rd2, DAYS_PER_4Y)
        q_cycles    == IF q0 = 25 THEN q0 - 1 ELSE q0
        rd3         == rd2 - q_cycles * DAYS_PER_4Y
        y0          == TruncDiv(rd3, 365)
        remyears    == IF y0 = 4 THEN y0 - 1 ELSE y0
        rd4         == rd3 - remyears * 365
        year0       == 2000 + remyears + 4 * q_cycles + 100 * c_cycles
                            + 400 * qc_cycles
        loop        == MonthLoop(0, rd4)
        mday        == loop.remdays + 1
        year        == IF loop.mon + 2 > 12 THEN year0 + 1 ELSE year0
        mon         == IF loop.mon + 2 > 12 THEN loop.mon - 10 ELSE loop.mon + 2
        w0          == TruncRem(3 + days, 7)
        wday        == IF w0 <= 0 THEN w0 + 7 ELSE w0
    IN  LogDate(v.nanos,
                AsU8(secs_of_day % 60),
                AsU8((secs_of_day % 3600) \div 60),
                AsU8(secs_of_day \div 3600),
                AsU8(mday), AsU8(mon), AsU16(year), AsU8(wday))

\* the domain check written ">" for ">=": the first second of the year 10000
\* is converted
LogDate_from_late(v) ==
    IF v.days > LIMIT_DAYS \/ (v.days = LIMIT_DAYS /\ v.secs > 0)
    THEN [panic |-> TRUE, date |-> NoDate]
    ELSE [panic |-> FALSE, date |-> Calendar(v)]

\* secs_since_epoch >= 253402300800 panics
LogDate_from(v) ==
    IF v.days >= LIMIT_DAYS
    THEN [panic |-> TRUE, date |-> NoDate]
    ELSE [panic |-> FALSE, date |-> Calendar(v)]

----------------------------------------------------------------------------
(* impl From<LogDate> for SystemTime *)

\* the Julian rule: every fourth year
is_leap_year_julian(y) == y % 4 = 0

is_leap_year(y) == y % 4 = 0 /\ (y % 100 # 0 \/ y % 400 = 0)

\* the match on v.mon
YdaysBefore(mon) ==
    CASE mon = 1 -> 0   [] mon = 2 -> 31   [] mon = 3 -> 59   [] mon = 4 -> 90
      [] mon = 5 -> 120 [] mon = 6 -> 151  [] mon = 7 -> 181  [] mon = 8 -> 212
      [] mon = 9 -> 243 [] mon = 10 -> 273 [] mon = 11 -> 304 [] mon = 12 -> 334

\* The inputs on which the conversion does not return: the unreachable!()
\* arm of the match, and the unsigned subtractions that underflow (a panic
\* in a build with overflow checks, a wrapped value without them).
Aborts(v) ==
    \/ v.mon \notin 1..12
    \/ v.year < 1970
    \/ YdaysBefore(v.mon) + v.day < 1

SystemTime_from(v) ==
    IF Aborts(v)
    THEN [abort |-> TRUE, time |-> NoTime]
    ELSE
    LET leap_years == ((v.year - 1) - 1968) \div 4 - ((v.year - 1) - 1900) \div 100
                          + ((v.year - 1) - 1600) \div 400
        yd0   == YdaysBefore(v.mon) + v.day - 1
        ydays == IF is_leap_year(v.year) /\ v.mon > 2 THEN yd0 + 1 ELSE yd0
        days  == (v.year - 1970) * 365 + leap_years + ydays
        tod   == v.sec + v.min * 60 + v.hour * 3600
    IN  [abort |-> FALSE,
         time  |-> Instant(days + tod \div SECS_PER_DAY, tod % SECS_PER_DAY, 0)]

----------------------------------------------------------------------------
(* LogDate::is_valid *)

\* the range checks alone, the round trip left out
is_valid_ranges_only(self) ==
    [panic |-> FALSE,
     ok    |-> /\ self.sec < 60
               /\ self.min < 60
               /\ self.hour < 24
               /\ self.day > 0
               /\ self.day < 32
               /\ self.mon > 0
               /\ self.mon <= 12
               /\ self.year >= 1970
               /\ self.year <= 9999]

\* the round trip compared on the instant instead of on the fields
is_valid_by_instant(self) ==
    IF ~is_valid_ranges_only(self).ok
    THEN [panic |-> FALSE, ok |-> FALSE]
    ELSE [panic |-> FALSE,
          ok    |-> SystemTime_from(LogDate_from(SystemTime_from(self).time).date)
                        = SystemTime_from(self)]

is_valid(self) ==
    IF ~(/\ self.sec < 60
         /\ self.min < 60
         /\ self.hour < 24
         /\ self.day > 0
         /\ self.day < 32
         /\ self.mon > 0
         /\ self.mon <= 12
         /\ self.year >= 1970
         /\ self.year <= 9999)
    THEN [panic |-> FALSE, ok |-> FALSE]
    ELSE LET t == SystemTime_from(self) IN
         IF t.abort THEN [panic |-> TRUE, ok |-> FALSE]
         ELSE LET d == LogDate_from(t.time) IN
              IF d.panic THEN [panic |-> TRUE, ok |-> FALSE]
              ELSE [panic |-> FALSE, ok |-> d.date = self]

----------------------------------------------------------------------------
(* impl Ord for LogDate *)

\* Ord for SystemTime
CmpInstant(a, b) ==
    IF a.days # b.days THEN (IF a.days < b.days THEN "Less" ELSE "Greater")
    ELSE IF a.secs # b.secs THEN (IF a.secs < b.secs THEN "Less" ELSE "Greater")
    ELSE IF a.nanos # b.nanos THEN (IF a.nanos < b.nanos THEN "Less" ELSE "Greater")
    ELSE "Equal"

cmp(self, other) ==
    LET a == SystemTime_from(self)
        b == SystemTime_from(other)
    IN  IF a.abort \/ b.abort THEN "Panic" ELSE CmpInstant(a.time, b.time)

----------------------------------------------------------------------------
(* Bytes and slices *)

\* b' '
SP == 32

\* b':'
COLON == 58

\* b'-'
HYPHEN == 45

\* b','
COMMA == 44

\* b'.'
DOT == 46

\* b'0'
ZERO == 48

\* b" GMT"
GMT == <<32, 71, 77, 84>>

\* "Jan" ... "Dec", the month tokens of the three match tables
MonthNames ==
    << <<74, 97, 110>>,
       <<70, 101, 98>>,
       <<77, 97, 114>>,
       <<65, 112, 114>>,
       <<77, 97, 121>>,
       <<74, 117, 110>>,
       <<74, 117, 108>>,
       <<65, 117, 103>>,
       <<83, 101, 112>>,
       <<79, 99, 116>>,
       <<78, 111, 118>>,
       <<68, 101, 99>> >>

\* "Mon" ... "Sun", the weekday tokens of the fixdate and asctime tables
WdayNames ==
    << <<77, 111, 110>>,
       <<84, 117, 101>>,
       <<87, 101, 100>>,
       <<84, 104, 117>>,
       <<70, 114, 105>>,
       <<83, 97, 116>>,
       <<83, 117, 110>> >>

\* b"Monday, " ... b"Sunday, ", in the order the long-weekday parser tries them
WdayLongNames ==
    << <<77, 111, 110, 100, 97, 121, 44, 32>>,
       <<84, 117, 101, 115, 100, 97, 121, 44, 32>>,
       <<87, 101, 100, 110, 101, 115, 100, 97, 121, 44, 32>>,
       <<84, 104, 117, 114, 115, 100, 97, 121, 44, 32>>,
       <<70, 114, 105, 100, 97, 121, 44, 32>>,
       <<83, 97, 116, 117, 114, 100, 97, 121, 44, 32>>,
       <<83, 117, 110, 100, 97, 121, 44, 32>> >>

\* s[i], for an index the slice holds
At(s, i) == s[i + 1]

\* the bounds check of s[i]
IndexOk(s, i) == i < Len(s)

\* s[a..b], for a range the slice holds
Slice(s, a, b) == SubSeq(s, a + 1, b)

\* the bounds check of s[a..b]
SliceOk(s, a, b) == a <= b /\ b <= Len(s)

\* a match on a byte-string table: the arm (1-based) whose pattern is tok,
\* 0 for the catch-all arm
MatchArm(table, tok) ==
    IF \E i \in DOMAIN table : table[i] = tok
    THEN CHOOSE i \in DOMAIN table : table[i] = tok
    ELSE 0

----------------------------------------------------------------------------
(* Integer field decoders.  Err is the value Bad: every Err of this file   *)
(* is the same Error::default().                                           *)

Bad == 0 - 1

\* u8::wrapping_sub
WrappingSub(x, y) == (x - y + 256) % 256

toint_1(x) ==
    LET result == WrappingSub(x, ZERO)
    IN  IF result < 10 THEN result ELSE Bad

toint_2(s) ==
    LET high == WrappingSub(At(s, 0), ZERO)
        low  == WrappingSub(At(s, 1), ZERO)
    IN  IF high < 10 /\ low < 10 THEN high * 10 + low ELSE Bad

toint_4(s) ==
    LET a == WrappingSub(At(s, 0), ZERO)
        b == WrappingSub(At(s, 1), ZERO)
        c == WrappingSub(At(s, 2), ZERO)
        d == WrappingSub(At(s, 3), ZERO)
    IN  IF a < 10 /\ b < 10 /\ c < 10 /\ d < 10
        THEN a * 1000 + b * 100 + c * 10 + d
        ELSE Bad

----------------------------------------------------------------------------
(* The three sub-grammars.  A result is Ok(date), Err, or a panic (an      *)
(* index or a slice range outside the slice).                              *)

OkR(date) == [tag |-> "Ok", date |-> date]

ErrR == [tag |-> "Err", date |-> NoDate]

PanicR == [tag |-> "Panic", date |-> NoDate]

\* the struct literal of a parser: the first field that is Err returns Err
Fields(sec, min, hour, day, mon, year, wday) ==
    IF sec = Bad \/ min = Bad \/ hour = Bad \/ day = Bad
           \/ mon = 0 \/ year = Bad \/ wday = 0
    THEN ErrR
    ELSE OkR(LogDate(0, sec, min, hour, day, mon, year, wday))

parse_imf_fixdate(s) ==
    IF Len(s) # 29 THEN ErrR
    ELSE IF ~SliceOk(s, 25, Len(s)) THEN PanicR
    ELSE IF Slice(s, 25, Len(s)) # GMT THEN ErrR
    ELSE IF ~IndexOk(s, 22) THEN PanicR
    ELSE IF At(s, 16) # SP \/ At(s, 19) # COLON \/ At(s, 22) # COLON THEN ErrR
    ELSE IF ~SliceOk(s, 0, 25) THEN PanicR
    ELSE Fields(toint_2(Slice(s, 23, 25)),
                toint_2(Slice(s, 20, 22)),
                toint_2(Slice(s, 17, 19)),
                toint_2(Slice(s, 5, 7)),
                MatchArm([i \in 1..12 |-> <<SP>> \o MonthNames[i] \o <<SP>>],
                         Slice(s, 7, 12)),
                toint_4(Slice(s, 12, 16)),
                MatchArm([i \in 1..7 |-> WdayNames[i] \o <<COMMA, SP>>],
                         Slice(s, 0, 5)))

\* the chain wday(s, 1, b"Monday, ").or_else(...) from the i-th name on:
\* Some((wday, rest)), None, or the panic of &s[0..name.len()]
RECURSIVE WdayChain(_, _)
WdayChain(s, i) ==
    IF i > Len(WdayLongNames) THEN [tag |-> "None", wday |-> 0, rest |-> <<>>]
    ELSE LET name == WdayLongNames[i] IN
         IF ~SliceOk(s, 0, Len(name))
         THEN [tag |-> "Panic", wday |-> 0, rest |-> <<>>]
         ELSE IF Slice(s, 0, Len(name)) = name
         THEN [tag |-> "Some", wday |-> i, rest |-> Slice(s, Len(name), Len(s))]
         ELSE WdayChain(s, i + 1)

\* the pivot fixed at 2000: every two-digit year read as 19yy
PivotYear_1900(yy) == yy + 1900

\* the two-digit year: below 70 in 2000 .. 2069, else in 1970 .. 1999
PivotYear(yy) == IF yy < 70 THEN yy + 2000 ELSE yy + 1900

\* parse_rfc850_date past its length check
Rfc850Body(s0) ==
    LET w == WdayChain(s0, 1) IN
    IF w.tag = "Panic" THEN PanicR
    ELSE IF w.tag = "None" THEN ErrR
    ELSE LET s == w.rest IN
    IF Len(s) # 22 THEN ErrR
    ELSE IF ~IndexOk(s, 15) THEN PanicR
    ELSE IF At(s, 12) # COLON \/ At(s, 15) # COLON THEN ErrR
    ELSE IF ~SliceOk(s, 18, 22) THEN PanicR
    ELSE IF Slice(s, 18, 22) # GMT THEN ErrR
    ELSE LET yy   == toint_2(Slice(s, 7, 9))
             year == IF yy = Bad THEN Bad ELSE PivotYear(yy)
         IN  Fields(toint_2(Slice(s, 16, 18)),
                    toint_2(Slice(s, 13, 15)),
                    toint_2(Slice(s, 10, 12)),
                    toint_2(Slice(s, 0, 2)),
                    MatchArm([i \in 1..12 |-> <<HYPHEN>> \o MonthNames[i] \o <<HYPHEN>>],
                             Slice(s, 2, 7)),
                    year,
                    w.wday)

\* the length check left out
parse_rfc850_date_unguarded(s0) == Rfc850Body(s0)

parse_rfc850_date(s0) == IF Len(s0) < 23 THEN ErrR ELSE Rfc850Body(s0)

parse_asctime(s) ==
    IF Len(s) # 24 THEN ErrR
    ELSE IF ~IndexOk(s, 19) THEN PanicR
    ELSE IF At(s, 10) # SP \/ At(s, 13) # COLON \/ At(s, 16) # COLON
               \/ At(s, 19) # SP THEN ErrR
    ELSE IF ~SliceOk(s, 0, 24) THEN PanicR
    ELSE LET x == Slice(s, 8, 10) IN
         Fields(toint_2(Slice(s, 17, 19)),
                toint_2(Slice(s, 14, 16)),
                toint_2(Slice(s, 11, 13)),
                IF At(x, 0) = SP THEN toint_1(At(x, 1)) ELSE toint_2(x),
                MatchArm([i \in 1..12 |-> MonthNames[i] \o <<SP>>], Slice(s, 4, 8)),
                toint_4(Slice(s, 20, 24)),
                MatchArm([i \in 1..7 |-> WdayNames[i] \o <<SP>>], Slice(s, 0, 4)))

----------------------------------------------------------------------------
(* impl FromStr for LogDate *)

\* str::is_ascii
is_ascii(s) == \A i \in 1..Len(s) : s[i] < 128

\* char::is_whitespace on an ASCII byte
IsWhitespace(b) == b \in {9, 10, 11, 12, 13, 32}

\* str::trim on an ASCII text
trim(s) ==
    LET keep == {i \in 1..Len(s) : ~IsWhitespace(s[i])}
    IN  IF keep = {} THEN <<>>
        ELSE LET first == CHOOSE i \in keep : \A j \in keep : i <= j
                 last  == CHOOSE i \in keep : \A j \in keep : j <= i
             IN  SubSeq(s, first, last)

\* Result::or_else: the next parser runs on Err only
OrElse(r, next) == IF r.tag = "Err" THEN next ELSE r

\* the three sub-grammars in order
Chain(x) ==
    OrElse(OrElse(parse_imf_fixdate(x), parse_rfc850_date(x)), parse_asctime(x))

\* the candidate returned as parsed, is_valid left out
from_str_unchecked(s) == IF ~is_ascii(s) THEN ErrR ELSE Chain(trim(s))

from_str(s) ==
    IF ~is_ascii(s) THEN ErrR
    ELSE LET date == Chain(trim(s))
         IN  IF date.tag # "Ok" THEN date
             ELSE LET v == is_valid(date.date) IN
                  IF v.panic THEN PanicR
                  ELSE IF ~v.ok THEN ErrR
                  ELSE date

----------------------------------------------------------------------------
(* impl Display for LogDate *)

\* the decimal digits of an unsigned integer, as bytes
RECURSIVE Decimal(_)
Decimal(n) ==
    IF n < 10 THEN <<ZERO + n>> ELSE Decimal(n \div 10) \o <<ZERO + (n % 10)>>

\* "{:9}": right-aligned in a field of at least 9 bytes, padded with spaces
Pad9(digits) ==
    IF Len(digits) >= 9 THEN digits
    ELSE [i \in 1..(9 - Len(digits)) |-> SP] \o digits

\* the fixdate layout, "Www, dd Mon yyyy HH:MM:SS GMT", in place of the
\* numeric one
fmt_imf_fixdate(self) ==
    WdayNames[self.wday]
        \o << COMMA, SP,
              ZERO + (self.day \div 10), ZERO + (self.day % 10), SP >>
        \o MonthNames[self.mon]
        \o << SP,
              ZERO + AsU8(self.year \div 1000),
              ZERO + AsU8((self.year \div 100) % 10),
              ZERO + AsU8((self.year \div 10) % 10),
              ZERO + AsU8(self.year % 10),
              SP,
              ZERO + (self.hour \div 10), ZERO + (self.hour % 10), COLON,
              ZERO + (self.min \div 10), ZERO + (self.min % 10), COLON,
              ZERO + (self.sec \div 10), ZERO + (self.sec % 10) >>
        \o GMT

fmt(self) ==
    << ZERO + AsU8(self.year \div 1000),
       ZERO + AsU8((self.year \div 100) % 10),
       ZERO + AsU8((self.year \div 10) % 10),
       ZERO + AsU8(self.year % 10),
       HYPHEN,
       ZERO + (self.mon \div 10),
       ZERO + (self.mon % 10),
       HYPHEN,
       ZERO + (self.day \div 10),
       ZERO + (self.day % 10),
       SP,
       ZERO + (self.hour \div 10),
       ZERO + (self.hour % 10),
       COLON,
       ZERO + (self.min \div 10),
       ZERO + (self.min % 10),
       COLON,
       ZERO + (self.sec \div 10),
       ZERO + (self.sec % 10),
       DOT >> \o Pad9(Decimal(self.nano))

----------------------------------------------------------------------------
(* The calendar, stated independently of the code: the reference the       *)
(* claims are read against.                                                *)

RefIsLeap(y) == (y % 4 = 0 /\ y % 100 # 0) \/ y % 400 = 0

RefDaysInMonth(y, m) ==
    IF m \in {4, 6, 9, 11} THEN 30
    ELSE IF m = 2 THEN (IF RefIsLeap(y) THEN 29 ELSE 28)
    ELSE 31

\* the weekday of a date, 1 = Monday ... 7 = Sunday (Sakamoto's congruence)
RefWeekday(y, m, d) ==
    LET t  == <<0, 3, 2, 5, 0, 3, 5, 1, 4, 6, 2, 4>>
        yy == IF m < 3 THEN y - 1 ELSE y
        w  == (yy + yy \div 4 - yy \div 100 + yy \div 400 + t[m] + d) % 7
    IN  IF w = 0 THEN 7 ELSE w

\* the fields denote a date and a time of day that exist
RefPossible(f) ==
    /\ f.mon \in 1..12
    /\ f.day \in 1..RefDaysInMonth(f.year, f.mon)
    /\ f.hour \in 0..23
    /\ f.min \in 0..59
    /\ f.sec \in 0..59

\* ... and the weekday field is the weekday of that date
RefReal(f) == RefPossible(f) /\ f.wday = RefWeekday(f.year, f.mon, f.day)

----------------------------------------------------------------------------
(* The texts of the three layouts, written out from fields *)

D2(n) == <<ZERO + (n \div 10), ZERO + (n % 10)>>

D4(n) == D2(n \div 100) \o D2(n % 100)

Clock(f) == D2(f.hour) \o <<COLON>> \o D2(f.min) \o <<COLON>> \o D2(f.sec)

\* Www, dd Mon yyyy HH:MM:SS GMT
RenderFix(f) ==
    WdayNames[f.wday] \o <<COMMA, SP>> \o D2(f.day) \o <<SP>> \o MonthNames[f.mon]
        \o <<SP>> \o D4(f.year) \o <<SP>> \o Clock(f) \o GMT

\* Wwwwwww, dd-Mon-yy HH:MM:SS GMT
RenderRfc850(f) ==
    WdayLongNames[f.wday] \o D2(f.day) \o <<HYPHEN>> \o MonthNames[f.mon]
        \o <<HYPHEN>> \o D2(f.year % 100) \o <<SP>> \o Clock(f) \o GMT

\* Www Mon [ d]d HH:MM:SS yyyy, a day below 10 padded with the byte pad
RenderAsctime(f, pad) ==
    WdayNames[f.wday] \o <<SP>> \o MonthNames[f.mon] \o <<SP>>
        \o (IF f.day < 10 THEN <<pad, ZERO + f.day>> ELSE D2(f.day))
        \o <<SP>> \o Clock(f) \o <<SP>> \o D4(f.year)

Grammars == {"fixdate", "rfc850", "asctime", "asctime0"}

Render(g, f) ==
    CASE g = "fixdate"  -> RenderFix(f)
      [] g = "rfc850"   -> RenderRfc850(f)
      [] g = "asctime"  -> RenderAsctime(f, SP)
      [] g = "asctime0" -> RenderAsctime(f, ZERO)

\* the 0-based offsets of the literal delimiter bytes of a layout
LiteralOffsets(g, f) ==
    CASE g = "fixdate" -> {3, 4, 7, 11, 16, 19, 22, 25, 26, 27, 28}
      [] g = "rfc850"  ->
            LET n == Len(WdayLongNames[f.wday])
            IN  {n - 2, n - 1, n + 2, n + 6, n + 9, n + 12, n + 15,
                 n + 18, n + 19, n + 20, n + 21}
      [] OTHER -> {3, 7, 10, 13, 16, 19}

\* the text with the byte at 0-based offset pos replaced
Replace(text, pos, byte) == [text EXCEPT ![pos + 1] = byte]

----------------------------------------------------------------------------
(* The inputs of the runs *)

\* days 0 .. DenseDays are all converted (1970 to the leap day of 1972)
DenseDays == 800

\* the days within Window of each anchor day are converted
Window == 2

\* the multiples of Stride up to StrideCount * Stride are converted
Stride == 9973

StrideCount == 294

\* the day tokens written in texts run up to MaxDayToken
MaxDayToken == 32

\* 1970-02-28, 1972-02-29, 1994-11-06, 1999-12-31, 2000-02-29, 2000-03-01,
\* 2001-01-01, 2004-02-29, 2038-01-19, 2069-12-31, 2100-02-28, 2100-03-01,
\* 2101-01-01, 2400-02-29, 9999-03-01, 9999-12-31, and a day far past it
AnchorDays ==
    {58, 789, 9075, 10956, 11016, 11017, 11323, 12477, 24855, 36524, 47540,
     47541, 47847, 157113, 2932591, 2932896, 3000000}

DaySecs == {0, 3661, 43200, 86399}

Nanos == {0, 1, 999999999}

Instants ==
    {Instant(d, s, 0) : d \in 0..DenseDays, s \in {0, 86399}}
    \cup {Instant(a + k, s, n) : a \in AnchorDays, k \in (0 - Window)..Window,
                                 s \in DaySecs, n \in Nanos}
    \cup {Instant(i * Stride, s, 0) : i \in 0..StrideCount, s \in {0, 86399}}

Src(kind, g, f, pos, byte) ==
    [kind |-> kind, g |-> g, f |-> f, pos |-> pos, byte |-> byte]

\* 1994-11-06 08:49:37 Sun, 2000-02-29 23:59:59 Tue, 1970-01-01 00:00:00 Thu,
\* 2000-03-01 12:00:00 Wed
BaseDates ==
    {LogDate(0, 37, 49, 8, 6, 11, 1994, 7), LogDate(0, 59, 59, 23, 29, 2, 2000, 2),
     LogDate(0, 0, 0, 0, 1, 1, 1970, 4), LogDate(0, 0, 0, 12, 1, 3, 2000, 3)}

DayTokens == {0, 1, 6, 10} \cup 28..MaxDayToken

\* hand-built values: dates that exist and dates that do not, under every
\* weekday, and times of day in and out of range
Candidates ==
    {LogDate(0, 37, 49, 8, d, m, y, w) :
        d \in DayTokens, m \in {0, 1, 2, 3, 4, 12, 13},
        y \in {1900, 1969, 1970, 2000, 2004, 2100, 9999, 10000}, w \in 1..7}
    \cup {LogDate(n, sec, min, hour, b.day, b.mon, b.year, b.wday) :
        n \in {0, 1}, sec \in {0, 59, 60}, min \in {0, 59, 60},
        hour \in {0, 23, 24}, b \in BaseDates}

\* values compared in pairs: field tuples around the end of February, several
\* of which denote the same instant
PairCandidates ==
    {LogDate(0, 0, 0, 0, md[2], md[1], y, w) :
        md \in {<<2, 28>>, <<2, 29>>, <<2, 30>>, <<2, 31>>, <<3, 1>>, <<3, 2>>},
        y \in {2000, 2001}, w \in {2, 3, 4}}
    \cup {LogDate(n, 0, 0, 0, 1, 3, 2000, 3) : n \in {0, 1}}
    \cup {LogDate(0, 60, 59, 23, 29, 2, 2000, 2), LogDate(0, 0, 0, 24, 29, 2, 2000, 2)}

\* the fields written into texts: dates under every weekday token, and times
\* of day in and out of range
WrittenFields ==
    {LogDate(0, 37, 49, 8, d, m, y, w) :
        d \in DayTokens, m \in {1, 2, 4, 11, 12},
        y \in {1900, 1969, 1970, 1994, 2000, 2004, 2069, 2100, 9999}, w \in 1..7}
    \cup {LogDate(0, sec, min, hour, b.day, b.mon, b.year, b.wday) :
        sec \in {0, 59, 60}, min \in {0, 59, 60}, hour \in {0, 23, 24},
        b \in BaseDates}

\* the two-digit year of the long-weekday layout writes 1970 .. 2069 only
Writable(g, f) == g = "rfc850" => f.year \in 1970..2069

\* dates that exist, 1970 .. 2069, each with its weekday
TriDates ==
    {LogDate(0, t[3], t[2], t[1], d, m, y, RefWeekday(y, m, d)) :
        t \in {<<8, 49, 37>>, <<0, 0, 0>>, <<23, 59, 59>>},
        d \in {x \in DayTokens : x >= 1}, m \in 1..12,
        y \in {1970, 1994, 1999, 2000, 2004, 2068, 2069}}

TextInputs ==
    {Src("written", g, f, 0, 0) : g \in Grammars, f \in WrittenFields}
    \cup {Src("tri", g, f, 0, 0) : g \in {"asctime", "asctime0"}, f \in TriDates}
    \cup UNION {{Src("replaced", g, f, p, b) :
                    p \in LiteralOffsets(g, f),
                    b \in {0, 9, 32, 44, 45, 48, 58, 69, 88, 127}} :
                g \in Grammars, f \in BaseDates}
    \cup UNION {{Src("prefix", g, f, n, 0) : n \in 0..(Len(Render(g, f)) - 1)} :
                g \in Grammars, f \in BaseDates}
    \cup {Src("nonascii", g, f, p, b) :
            g \in Grammars, f \in BaseDates, p \in {0, 9, 23}, b \in {128, 195, 255}}
    \cup {Src("padded", g, f, 0, b) : g \in Grammars, f \in BaseDates, b \in {9, 10, 32}}
    \cup {Src("extended", g, f, 0, b) : g \in Grammars, f \in BaseDates, b \in {32, 88}}

\* the input is one the layouts can write
InputOk(i) ==
    /\ Writable(i.g, i.f)
    /\ i.kind = "tri" => RefReal(i.f) /\ i.f.year \in 1970..2069
    /\ i.kind = "replaced" => Render(i.g, i.f)[i.pos + 1] # i.byte

\* the texts a run parses
TextsOf(i) ==
    LET text == Render(i.g, i.f) IN
    CASE i.kind = "written"  -> <<text>>
      [] i.kind = "tri"      -> <<RenderFix(i.f), RenderRfc850(i.f), text>>
      [] i.kind = "replaced" -> <<text, Replace(text, i.pos, i.byte)>>
      [] i.kind = "prefix"   -> <<SubSeq(text, 1, i.pos)>>
      [] i.kind = "nonascii" -> <<Replace(text, i.pos, i.byte)>>
      [] i.kind = "padded"   -> <<(<<i.byte>> \o text \o <<i.byte, SP>>)>>
      [] i.kind = "extended" -> <<(text \o <<i.byte>>)>>

NoSrc(kind) == Src(kind, "-", NoDate, 0, 0)

----------------------------------------------------------------------------
(* The state machine *)

InitInstant ==
    /\ time \in Instants
    /\ pc = "start"
    /\ src = NoSrc("instant")
    /\ texts = <<>> /\ results = <<>> /\ dates = <<>>

InitBuilt ==
    /\ \/ \E a \in Candidates : dates = <<a>>
       \/ \E a, b \in PairCandidates : dates = <<a, b>>
    /\ pc = "built"
    /\ src = NoSrc("built")
    /\ time = NoTime
    /\ texts = <<>> /\ results = <<>>

InitText ==
    /\ src \in {i \in TextInputs : InputOk(i)}
    /\ texts = TextsOf(src)
    /\ pc = "parse"
    /\ time = NoTime
    /\ results = <<>> /\ dates = <<>>

Init ==
    /\ (InitInstant \/ InitBuilt \/ InitText)
    /\ back = NoTime
    /\ valid = <<>>
    /\ ord = <<>>

\* LogDate::from(time)
FromSystemTime ==
    /\ pc = "start"
    /\ \E r \in {LogDate_from(time)} :
        /\ pc' = IF r.panic THEN "panicked" ELSE "converted"
        /\ dates' = IF r.panic THEN <<>> ELSE <<r.date>>
    /\ UNCHANGED <<src, time, texts, results, back, valid, ord>>

\* SystemTime::from(dates[1])
IntoSystemTime ==
    /\ pc = "converted"
    /\ \E r \in {SystemTime_from(dates[1])} :
        /\ pc' = IF r.abort THEN "panicked" ELSE "returned"
        /\ back' = r.time
    /\ UNCHANGED <<src, time, texts, results, dates, valid, ord>>

\* is_valid of every value in hand
IsValid ==
    /\ pc \in {"converted", "built"}
    /\ \E r \in {[i \in 1..Len(dates) |-> is_valid(dates[i])]} :
        /\ pc' = IF \E i \in 1..Len(dates) : r[i].panic THEN "panicked"
                 ELSE "validated"
        /\ valid' = [i \in 1..Len(dates) |-> r[i].ok]
    /\ UNCHANGED <<src, time, texts, results, dates, back, ord>>

\* from_str of the next text
FromStr ==
    /\ pc \in {"parse", "shown"}
    /\ Len(results) < Len(texts)
    /\ \E r \in {from_str(texts[Len(results) + 1])} :
        /\ results' = Append(results, r)
        /\ dates' = IF r.tag = "Ok" THEN Append(dates, r.date) ELSE dates
        /\ pc' = IF r.tag = "Panic" THEN "panicked"
                 ELSE IF pc = "shown" THEN "reparsed"
                 ELSE IF Len(results) + 1 = Len(texts) THEN "parsed"
                 ELSE "parse"
    /\ UNCHANGED <<src, time, texts, back, valid, ord>>

\* to_string of the first parsed value; the output is parsed next
Display ==
    /\ pc = "parsed"
    /\ dates # <<>>
    /\ texts' = Append(texts, fmt(dates[1]))
    /\ pc' = "shown"
    /\ UNCHANGED <<src, time, results, dates, back, valid, ord>>

\* cmp of the values in hand, pair by pair: <<cmp(1,2)>> for two values,
\* <<cmp(1,2), cmp(1,3), cmp(2,3)>> for three
Cmp ==
    /\ pc \in {"validated", "parsed"}
    /\ Len(dates) \in {2, 3}
    /\ \E r \in {IF Len(dates) = 2 THEN <<cmp(dates[1], dates[2])>>
                  ELSE <<cmp(dates[1], dates[2]), cmp(dates[1], dates[3]),
                         cmp(dates[2], dates[3])>>} :
        /\ ord' = r
        /\ pc' = IF \E i \in 1..Len(r) : r[i] = "Panic" THEN "panicked"
                 ELSE "compared"
    /\ UNCHANGED <<src, time, texts, results, dates, back, valid>>

Next ==
    \/ FromSystemTime
    \/ IntoSystemTime
    \/ IsValid
    \/ FromStr
    \/ Display
    \/ Cmp

Spec == Init /\ [][Next]_vars

----------------------------------------------------------------------------
(* The claims *)

\* C1: for every whole-second instant t before 10000-01-01T00:00:00Z,
\* converting t to a LogDate and that LogDate back to a SystemTime returns
\* the identical instant, the (zero) nanosecond remainder included.
C1_RoundTripInstant ==
    (pc = "returned" /\ time.nanos = 0) => back = time

\* the last second of the year 9999 went there and back
C1_Witness ==
    /\ pc = "returned"
    /\ time = Instant(2932896, 86399, 0)
    /\ back = time

\* C2: is_valid rejects month 13, hour 24, second 60 and every day past the
\* real length of its month in its year, and accepts 29 February of a leap
\* year when the value is built as the parsers build it (nanosecond 0, the
\* other fields in range, the weekday that of the date).
C2_ValidityOfBuilt ==
    (pc \in {"validated", "compared"} /\ src.kind = "built") =>
        \A i \in 1..Len(dates) :
            LET d == dates[i] IN
            /\ (d.mon = 13 \/ d.hour = 24 \/ d.sec = 60) => ~valid[i]
            /\ (d.mon \in 1..12 /\ d.day > RefDaysInMonth(d.year, d.mon))
                   => ~valid[i]
            /\ (/\ d.mon = 2 /\ d.day = 29 /\ RefIsLeap(d.year)
                /\ d.year \in 1970..9999
                /\ d.nano = 0 /\ d.sec < 60 /\ d.min < 60 /\ d.hour < 24
                /\ d.wday = RefWeekday(d.year, 2, 29))
                   => valid[i]

\* 2000-02-29 (a Tuesday) was checked and accepted
C2_Witness ==
    /\ pc = "validated"
    /\ dates = <<LogDate(0, 37, 49, 8, 29, 2, 2000, 2)>>
    /\ valid = <<TRUE>>

\* C3: for every real date-time of 1970 .. 2069, its fixdate, long-weekday
\* and asctime texts each parse, the three results have the fields that
\* were written (the two-digit year pivoted at 70), and each pair of them
\* compares Equal.
C3_ThreeLayoutsAgree ==
    src.kind = "tri" =>
        /\ pc # "panicked"
        /\ \A i \in 1..Len(results) :
               i <= 3 => results[i].tag = "Ok" /\ results[i].date = src.f
        /\ pc = "compared" => ord = <<"Equal", "Equal", "Equal">>

\* "Sun, 06 Nov 1994 08:49:37 GMT" and its two equivalents were parsed to
\* 1994-11-06 08:49:37, weekday 7, and compared
C3_Witness ==
    /\ pc = "compared"
    /\ src.kind = "tri"
    /\ dates = << LogDate(0, 37, 49, 8, 6, 11, 1994, 7),
                  LogDate(0, 37, 49, 8, 6, 11, 1994, 7),
                  LogDate(0, 37, 49, 8, 6, 11, 1994, 7) >>
    /\ ord = <<"Equal", "Equal", "Equal">>

\* C4: a text of one of the three layouts whose fields are calendrically
\* impossible, or whose weekday token is not the weekday of the written
\* date, is answered Err by from_str.
C4_ImpossibleRejected ==
    (src.kind = "written" /\ Len(results) >= 1 /\ ~RefReal(src.f)) =>
        results[1].tag = "Err"

\* "Mon, 06 Nov 1994 08:49:37 GMT" (a Sunday) was parsed and answered Err
C4_Witness ==
    /\ src = Src("written", "fixdate", LogDate(0, 37, 49, 8, 6, 11, 1994, 1), 0, 0)
    /\ Len(results) = 1
    /\ results[1].tag = "Err"

\* C5: for any text from_str accepts, replacing one literal delimiter byte of
\* its layout by a different ASCII byte makes from_str answer Err, in all
\* three layouts, the space between the two-digit year and the hour of the
\* long-weekday layout included.
C5_EveryLiteralChecked ==
    (src.kind = "replaced" /\ Len(results) >= 2 /\ results[1].tag = "Ok") =>
        results[2].tag = "Err"

\* C6: LogDate::from panics and returns nothing for every instant at or past
\* 253402300800 s (day 2932897), and for every instant before it returns
\* fields in their ranges; 253402300799 s is 9999-12-31 23:59:59.
C6_DomainBoundary ==
    (src.kind = "instant" /\ pc # "start") =>
        /\ time.days >= 2932897 => pc = "panicked" /\ dates = <<>>
        /\ time.days < 2932897 =>
            /\ pc # "panicked"
            /\ Len(dates) = 1
            /\ dates[1].nano \in 0..999999999
            /\ dates[1].sec \in 0..59
            /\ dates[1].min \in 0..59
            /\ dates[1].hour \in 0..23
            /\ dates[1].day \in 1..31
            /\ dates[1].mon \in 1..12
            /\ dates[1].year \in 1970..9999
            /\ dates[1].wday \in 1..7
        /\ (time.days = 2932896 /\ time.secs = 86399) =>
            dates = <<LogDate(time.nanos, 59, 59, 23, 31, 12, 9999, 5)>>

\* the first second of the year 10000 was handed over and the conversion
\* panicked
C6_Witness ==
    /\ pc = "panicked"
    /\ time = Instant(2932897, 0, 0)
    /\ dates = <<>>

\* C7: for two values that both pass is_valid, field-wise equality holds
\* exactly when cmp is Equal.
C7_EqualityIsOrderEquality ==
    (pc = "compared" /\ src.kind = "built" /\ valid[1] /\ valid[2]) =>
        (dates[1] = dates[2] <=> ord = <<"Equal">>)

\* two different valid values were compared
C7_Witness ==
    /\ pc = "compared"
    /\ src.kind = "built"
    /\ valid = <<TRUE, TRUE>>
    /\ dates[1] # dates[2]
    /\ ord # <<"Equal">>

\* C8: the Display output of a value from_str returned is answered Err by
\* from_str.
C8_DisplayNotParsed ==
    pc = "reparsed" => results[Len(results)].tag = "Err"

\* "1994-11-06 08:49:37.        0" was written and parsed again
C8_Witness ==
    /\ pc = "reparsed"
    /\ src.kind = "written"
    /\ texts[Len(texts)] =
           <<49, 57, 57, 52, 45, 49, 49, 45, 48, 54, 32, 48, 56, 58, 52, 57,
             58, 51, 55, 46, 32, 32, 32, 32, 32, 32, 32, 32, 48>>
    /\ results[Len(results)].tag = "Err"

\* C9: every LogDate converted from an in-domain instant, whatever its
\* nanosecond remainder, passes is_valid.
C9_ConvertedIsValid ==
    (pc = "validated" /\ src.kind = "instant") => valid = <<TRUE>>

\* C10: from_str returns Ok or Err for every text and never panics.
C10_FromStrTotal ==
    src.kind \notin {"instant", "built"} =>
        /\ pc # "panicked"
        /\ \A i \in 1..Len(results) : results[i].tag \in {"Ok", "Err"}

\* a text cut to 8 bytes, shorter than every long weekday name but one, and
\* a text of the year 1969 were answered Err
C10_Witness ==
    /\ Len(results) = 1
    /\ results[1].tag = "Err"
    /\ \/ src.kind = "prefix" /\ src.pos = 8
       \/ src.kind = "written" /\ src.f.year = 1969 /\ RefReal(src.f)

====
